---- MODULE Spec2Model ----
(***************************************************************************)
(* Model of src/app.py: a Streamlit script that is executed top to bottom  *)
(* on every user interaction.  The widgets' values are the session state;  *)
(* every interaction (a widget change or a button press) re-executes the   *)
(* whole script on the current widget values, with the pressed button      *)
(* reading True in that run only.                                          *)
(*                                                                         *)
(* Numbers.  The script computes with Python floats; the model computes    *)
(* the same expressions exactly, in decimal fixed point:                   *)
(*   kWh, litres, km, months       whole numbers                           *)
(*   CO2 of the footprint          grams (kg * KgUnit)                     *)
(*   won                           Dec: [won, frac], frac in 1/WonUnit won *)
(*   water simulator               per field, see WaterSimulator           *)
(*   penguin figures               1/PenguinUnit penguins                  *)
(*   a quotient by a non-constant  Frac: [num, den]                        *)
(*                                                                         *)
(* Left out: the recycling-rate section (lines 105-148), whose values feed *)
(* nothing below it, and the text formatting of the metrics.  The image    *)
(* file opened at line 261 is taken to exist, ImgHeight pixels high.       *)
(***************************************************************************)
EXTENDS Integers, Sequences, FiniteSets, TLC

(* ------------------------------ bounds --------------------------------- *)
\* years a date input may take: Today.year .. Today.year + MaxYearSpan
MaxYearSpan == 1
\* largest usage calculate_monthly_bill is called with directly (SpecBill)
MaxKwh == 450
\* direct calls also take the usages -MaxNegKwh .. -1
MaxNegKwh == 20
\* pixel height of the image asset opened at line 261
ImgHeight == 100

(* --------------------------- fixed point -------------------------------- *)
KgUnit == 10 ^ 3
WonUnit == 10 ^ 5
PenguinUnit == 10 ^ 7

Max(a, b) == IF a >= b THEN a ELSE b

\* a decimal amount won + frac / WonUnit, with 0 <= frac < WonUnit
DecNorm(won, frac) == [won |-> won + (frac \div WonUnit), frac |-> frac % WonUnit]
\* n / 10^k as a Dec, for k <= 5
DecOf(n, k) == DecNorm(n \div (10 ^ k), (n % (10 ^ k)) * (WonUnit \div (10 ^ k)))
DecAdd(a, b) == DecNorm(a.won + b.won, a.frac + b.frac)
DecSub(a, b) == DecNorm(a.won - b.won, a.frac - b.frac)
DecMul(a, n) == DecNorm(a.won * n, a.frac * n)
DecZero == [won |-> 0, frac |-> 0]

\* a / b for a divisor that is not a constant
Frac(a, b) == [num |-> a, den |-> b]
FracMul(f, n) == [num |-> f.num * n, den |-> f.den]
FracEq(f, g) == f.num * g.den = g.num * f.den

(* ----------------------- constants of the script ------------------------ *)
DEFAULT_PER_CAPITA_WATER_USAGE == 305
\* 0.5 kWh/m3, in tenths
ENERGY_PER_CUBIC_METER_WATER_SUPPLY == 5
\* 0.029 kWh/L, in thousandths
ENERGY_TO_HEAT_1L_WATER == 29
\* 0.4 kg CO2/kWh, in tenths
CO2_PER_KWH == 4
CO2_ABSORBED_PER_TREE_PER_YEAR == 21
\* won per kWh, in tenths: 78.3, 147.3, 215.6
BASE_COST_PER_KWH == <<783, 1473, 2156>>
TIER_THRESHOLDS == <<200, 400>>
\* 0.1, in tenths
VAT_RATE == 1
\* 0.037, in thousandths
ELECTRICITY_FUND_RATE == 37
CO2_EMISSION_FACTOR_G_PER_KWH == 409
World_AVERAGE_CO2_KG == 4800
FIXED_EMISSION_KG == 1300
CO2_SAVING_PER_PENGUIN_KG == 100
PENGUIN_DIVISOR == 5000
DAYS_PER_YEAR == 365

(* ------------------------------ functions ------------------------------- *)
\* energy_charge in tenths of a won
energy_charge_mut(kwh_usage) ==
    IF kwh_usage <= TIER_THRESHOLDS[1]
    THEN kwh_usage * BASE_COST_PER_KWH[1]
    ELSE IF kwh_usage <= TIER_THRESHOLDS[2]
    THEN (kwh_usage - TIER_THRESHOLDS[1]) * BASE_COST_PER_KWH[2]
    ELSE (kwh_usage - TIER_THRESHOLDS[2]) * BASE_COST_PER_KWH[3]

energy_charge(kwh_usage) ==
    IF kwh_usage <= TIER_THRESHOLDS[1]
    THEN kwh_usage * BASE_COST_PER_KWH[1]
    ELSE IF kwh_usage <= TIER_THRESHOLDS[2]
    THEN TIER_THRESHOLDS[1] * BASE_COST_PER_KWH[1]
         + (kwh_usage - TIER_THRESHOLDS[1]) * BASE_COST_PER_KWH[2]
    ELSE TIER_THRESHOLDS[1] * BASE_COST_PER_KWH[1]
         + (TIER_THRESHOLDS[2] - TIER_THRESHOLDS[1]) * BASE_COST_PER_KWH[2]
         + (kwh_usage - TIER_THRESHOLDS[2]) * BASE_COST_PER_KWH[3]

\* The function has no check of its argument and no raise: it returns the
\* tuple (total_bill, energy_charge, electricity_fund, vat) for every number.
\*   energy_charge     tenths of a won
\*   electricity_fund  1/10^4 won   (tenths * thousandths)
\*   vat               1/10^5 won   ((charge + fund) * tenths)
\*   total_bill        Dec
calculate_monthly_bill(kwh_usage) ==
    LET charge == energy_charge(kwh_usage)
        base_fee == 0
        electricity_fund == charge * ELECTRICITY_FUND_RATE
        vat == (charge * 1000 + electricity_fund) * VAT_RATE
        total_bill == DecAdd(DecAdd(DecAdd(DecOf(base_fee, 0), DecOf(charge, 1)),
                                    DecOf(electricity_fund, 4)),
                             DecOf(vat, 5))
    IN  [raised |-> "none", total_bill |-> total_bill, energy_charge |-> charge,
         electricity_fund |-> electricity_fund, vat |-> vat]

count_months_mut(start_date, end_date) ==
    (end_date.year - start_date.year) * 12 + (end_date.month - start_date.month)
    + (IF end_date.day < start_date.day THEN 0 ELSE 1)

count_months(start_date, end_date) ==
    (end_date.year - start_date.year) * 12 + (end_date.month - start_date.month) + 1

\* datetime.date ordering: start_date > end_date
DateGreater(a, b) ==
    \/ a.year > b.year
    \/ a.year = b.year /\ a.month > b.month
    \/ a.year = b.year /\ a.month = b.month /\ a.day > b.day

\* line 72: usage_after > usage_before
UsageGuard_mut(usage_before_, usage_after_) == usage_after_ < usage_before_

UsageGuard(usage_before_, usage_after_) == usage_after_ > usage_before_

(* ---------------------- electricity saving analysis --------------------- *)
\* (usage * CO2_EMISSION_FACTOR_G_PER_KWH * num_months) / 1000 kg, in grams
co2_of_usage_mut(usage, num_months) ==
    (usage * CO2_PER_KWH * num_months) * (KgUnit \div 10)

co2_of_usage(usage, num_months) ==
    (usage * CO2_EMISSION_FACTOR_G_PER_KWH * num_months) * (KgUnit \div 1000)

NoElectricity ==
    [num_months |-> 0, saved_kwh_per_month |-> 0, total_saved_kwh |-> 0,
     saved_percent |-> Frac(0, 1), original_bill |-> DecZero,
     reduced_bill |-> DecZero, saved_won_per_month |-> DecZero,
     total_saved_won |-> DecZero, co2_before_kg |-> 0, co2_after_kg |-> 0,
     total_co2_saved_kg |-> 0]

\* the body of `if st.button("전기 절약 분석하기"):`
ElectricityAnalysis(start, end, before, after) ==
    LET num_months == count_months(start, end)
        saved_kwh_per_month == before - after
        total_saved_kwh == saved_kwh_per_month * num_months
        saved_percent == FracMul(Frac(saved_kwh_per_month, before), 100)
        original_bill == calculate_monthly_bill(before).total_bill
        reduced_bill == calculate_monthly_bill(after).total_bill
        saved_won_per_month == DecSub(original_bill, reduced_bill)
        total_saved_won == DecMul(saved_won_per_month, num_months)
        co2_before_kg == co2_of_usage(before, num_months)
        co2_after_kg == co2_of_usage(after, num_months)
    IN  [num_months |-> num_months, saved_kwh_per_month |-> saved_kwh_per_month,
         total_saved_kwh |-> total_saved_kwh, saved_percent |-> saved_percent,
         original_bill |-> original_bill, reduced_bill |-> reduced_bill,
         saved_won_per_month |-> saved_won_per_month,
         total_saved_won |-> total_saved_won, co2_before_kg |-> co2_before_kg,
         co2_after_kg |-> co2_after_kg,
         total_co2_saved_kg |-> co2_before_kg - co2_after_kg]

(* ------------------------ water saving simulator ------------------------ *)
\* hot_water_saving_liters * ENERGY_TO_HEAT_1L_WATER; litres in tenths, so
\* the energy is in 1/10^4 kWh
energy_saved_from_hot_water_mut(hot_water_saving_liters) ==
    hot_water_saving_liters * ENERGY_PER_CUBIC_METER_WATER_SUPPLY

energy_saved_from_hot_water(hot_water_saving_liters) ==
    hot_water_saving_liters * ENERGY_TO_HEAT_1L_WATER

\* Units of the fields:
\*   daily_saving, annual_saving_liters          litres
\*   hot_water_saving_liters                     1/10 L     (annual * 0.40)
\*   cold_water_supply_saving_cubic_meters       1/10^4 m3  ((annual * 0.60) / 1000)
\*   energy_saved_from_hot_water                 1/10^4 kWh
\*   energy_saved_from_cold_supply               1/10^5 kWh
\*   total_energy_saved_kwh                      1/10^5 kWh
\*   co2_reduced_kg                              1/10^6 kg
\*   equivalent_trees                            Frac of co2_reduced_kg
\* The names below annual_saving_liters are bound only when daily_saving > 0.
WaterSimulator(user_daily_water_usage_) ==
    LET daily_saving == DEFAULT_PER_CAPITA_WATER_USAGE - user_daily_water_usage_
        annual_saving_liters == daily_saving * DAYS_PER_YEAR
        hot_water_saving_liters == annual_saving_liters * 4
        cold_water_supply_saving_cubic_meters == annual_saving_liters * 6
        hot == energy_saved_from_hot_water(hot_water_saving_liters)
        cold == cold_water_supply_saving_cubic_meters
                    * ENERGY_PER_CUBIC_METER_WATER_SUPPLY
        total_energy_saved_kwh == hot * 10 + cold
        co2_reduced_kg == total_energy_saved_kwh * CO2_PER_KWH
    IN  IF daily_saving > 0
        THEN [saving |-> TRUE, daily_saving |-> daily_saving,
              annual_saving_liters |-> annual_saving_liters,
              hot_water_saving_liters |-> hot_water_saving_liters,
              cold_water_supply_saving_cubic_meters |->
                  cold_water_supply_saving_cubic_meters,
              energy_saved_from_hot_water |-> hot,
              energy_saved_from_cold_supply |-> cold,
              total_energy_saved_kwh |-> total_energy_saved_kwh,
              co2_reduced_kg |-> co2_reduced_kg,
              equivalent_trees |-> Frac(co2_reduced_kg, CO2_ABSORBED_PER_TREE_PER_YEAR)]
        ELSE [saving |-> FALSE, daily_saving |-> daily_saving,
              annual_saving_liters |-> annual_saving_liters,
              hot_water_saving_liters |-> 0,
              cold_water_supply_saving_cubic_meters |-> 0,
              energy_saved_from_hot_water |-> 0,
              energy_saved_from_cold_supply |-> 0,
              total_energy_saved_kwh |-> 0,
              co2_reduced_kg |-> 0,
              equivalent_trees |-> Frac(0, 1)]

(* ---------------------- carbon footprint simulator ---------------------- *)
TransportModes == {"car", "bus", "subway", "bike_walk"}
\* kg per km, in thousandths: 0.170, 0.093, 0.091, 0.056
emission_factors ==
    [m \in TransportModes |->
        CASE m = "car" -> 170 [] m = "bus" -> 93 [] m = "subway" -> 91
          [] m = "bike_walk" -> 56]

WasteModes == {"full_separation", "partial_mixed"}
\* kg
emission == [m \in WasteModes |-> IF m = "full_separation" THEN 203 ELSE 193]

(* ------------------------------ aggregation ----------------------------- *)
\* line 217: co2_after_kg if 'co2_after_kg' in locals() else 0
total_co2_electricity_mut(names, co2_after_kg) == 0

total_co2_electricity(names, co2_after_kg) ==
    IF "co2_after_kg" \in names THEN co2_after_kg ELSE 0

\* line 218: water_co2_total if 'co2_reduced_kg' in locals() else 0
total_co2_water(names, water_co2_total) ==
    IF "co2_reduced_kg" \in names THEN water_co2_total ELSE 0

\* line 219: annual_co2 if 'annual_co2' in locals() else 0
total_co2_transport(names, annual_co2) ==
    IF "annual_co2" \in names THEN annual_co2 ELSE 0

\* line 231, in grams
delta_kg_mut(total_annual_co2_kg) == 14000 * KgUnit - total_annual_co2_kg

delta_kg(total_annual_co2_kg) == World_AVERAGE_CO2_KG * KgUnit - total_annual_co2_kg

(* ---------------------------- carbon summary ---------------------------- *)
\* line 247: max(delta_kg, 0) / CO2_SAVING_PER_PENGUIN_KG, in 1/PenguinUnit
penguins_per_100(delta) ==
    Max(delta, 0) * (PenguinUnit \div (KgUnit * CO2_SAVING_PER_PENGUIN_KG))

\* lines 250 and 258: delta_kg / 5000, in 1/PenguinUnit
penguins_per_5000(delta) == delta * (PenguinUnit \div (KgUnit * PENGUIN_DIVISOR))

\* What `if st.button("탄소 결산 보기"):` leaves: the figures it computes and,
\* in metric_penguins, the one it hands to st.metric("살린 펭귄 수 추정").
NoSummary ==
    [shown |-> FALSE, metric_total |-> 0, message |-> "none",
     penguins_saved |-> 0, metric_penguins |-> 0]

Summary(total_annual_co2_kg, delta) ==
    [shown |-> TRUE, metric_total |-> total_annual_co2_kg,
     message |-> IF delta > 0 THEN "success" ELSE "warning",
     penguins_saved |-> penguins_per_100(delta),
     metric_penguins |-> penguins_per_5000(delta)]

(* --------------------------- penguin images ----------------------------- *)
\* What `if st.button("🐧 펭귄 살린 만큼 보기"):` renders for penguins_saved:
\* full images, at most one crop with its height, the caption or the info.
NoImages ==
    [shown |-> FALSE, full_penguins |-> 0, crops |-> 0, partial_height |-> 0,
     caption |-> 0, info |-> FALSE]

PenguinImages(penguins_saved) ==
    IF penguins_saved > 0
    THEN LET full_penguins == penguins_saved \div PenguinUnit
             partial_penguin_fraction == penguins_saved - full_penguins * PenguinUnit
         IN  [shown |-> TRUE, full_penguins |-> full_penguins,
              crops |-> IF partial_penguin_fraction > 0 THEN 1 ELSE 0,
              partial_height |->
                  IF partial_penguin_fraction > 0
                  THEN (ImgHeight * partial_penguin_fraction) \div PenguinUnit
                  ELSE 0,
              caption |-> penguins_saved, info |-> FALSE]
    ELSE [shown |-> TRUE, full_penguins |-> 0, crops |-> 0, partial_height |-> 0,
          caption |-> 0, info |-> TRUE]

(* ------------------------------ one run --------------------------------- *)
Buttons == {"none", "analyze", "summary", "penguins"}

\* a run ended by st.stop() before anything below it was executed
Stopped(stage, button) ==
    [stage |-> stage, button |-> button, names |-> {}, calls |-> << >>,
     el |-> NoElectricity, water |-> WaterSimulator(DEFAULT_PER_CAPITA_WATER_USAGE),
     daily_co2 |-> 0, annual_co2 |-> 0, tresh_co2 |-> 0, water_co2_total |-> 0,
     total_co2_electricity |-> 0, total_co2_water |-> 0,
     total_co2_transport |-> 0, fixed_emission_value |-> 0,
     total_annual_co2_kg |-> 0, delta_kg |-> 0, summary |-> NoSummary,
     penguins_saved |-> 0, images |-> NoImages]

\* One execution of the script, top to bottom, in a fresh namespace: w holds the
\* widgets' values, button the button that reads True.  names is the set of
\* the script's names that get bound among those it later looks up in locals().
Rerun(w, button) ==
    IF DateGreater(w.start_date, w.end_date) THEN Stopped("date_error", button)
    ELSE IF UsageGuard(w.usage_before, w.usage_after)
    THEN Stopped("usage_error", button)
    ELSE
    LET analysed == button = "analyze"
        el == IF analysed
              THEN ElectricityAnalysis(w.start_date, w.end_date,
                                       w.usage_before, w.usage_after)
              ELSE NoElectricity
        calls == IF analysed
                 THEN <<"count_months", "calculate_monthly_bill",
                        "calculate_monthly_bill">>
                 ELSE << >>
        water == WaterSimulator(w.user_daily_water_usage)
        daily_co2 == emission_factors[w.mode] * w.distance
        annual_co2 == daily_co2 * DAYS_PER_YEAR
        tresh_co2 == emission[w.waste_mode] * KgUnit
        names == (IF analysed THEN {"co2_after_kg"} ELSE {})
                    \cup (IF water.saving THEN {"co2_reduced_kg"} ELSE {})
                    \cup {"annual_co2"}
        water_co2_total == w.user_daily_water_usage * (KgUnit \div 100)
        e == total_co2_electricity(names, el.co2_after_kg)
        wt == total_co2_water(names, water_co2_total)
        t == total_co2_transport(names, annual_co2)
        fixed_emission_value ==
            IF w.add_fixed_emission THEN FIXED_EMISSION_KG * KgUnit ELSE 0
        total_annual_co2_kg == e + wt + t + tresh_co2 + fixed_emission_value
        delta == delta_kg(total_annual_co2_kg)
        penguins_saved == penguins_per_5000(delta)
    IN  [stage |-> "done", button |-> button, names |-> names, calls |-> calls,
         el |-> el, water |-> water, daily_co2 |-> daily_co2,
         annual_co2 |-> annual_co2, tresh_co2 |-> tresh_co2,
         water_co2_total |-> water_co2_total, total_co2_electricity |-> e,
         total_co2_water |-> wt, total_co2_transport |-> t,
         fixed_emission_value |-> fixed_emission_value,
         total_annual_co2_kg |-> total_annual_co2_kg, delta_kg |-> delta,
         summary |-> IF button = "summary"
                     THEN Summary(total_annual_co2_kg, delta) ELSE NoSummary,
         penguins_saved |-> penguins_saved,
         images |-> IF button = "penguins"
                    THEN PenguinImages(penguins_saved) ELSE NoImages]

(* ------------------------------- inputs --------------------------------- *)
\* datetime.date.today() of the session
Today == [year |-> 2024, month |-> 1, day |-> 15]
Years == Today.year .. (Today.year + MaxYearSpan)
MonthValues == {1, 12}
DayValues == {1, 14}
Dates == [year : Years, month : MonthValues, day : DayValues]
\* today.replace(day=1) and today + timedelta(days=365)
DefaultStart == [Today EXCEPT !.day = 1]
DefaultEnd == [year |-> Today.year + 1, month |-> Today.month, day |-> Today.day - 1]
\* number_input(min_value=1.0) and number_input(min_value=0.0), whole kWh
UsageBeforeValues == {200, 400}
UsageAfterValues == {0, 300}
\* slider(min_value=0, max_value=500, step=10)
WaterValues == {100, 310}
\* number_input(min_value=0.0), whole km
DistanceValues == {0, 10, 100}

(* ------------------------------- state ---------------------------------- *)
VARIABLES start_date, end_date, usage_before, usage_after,
          user_daily_water_usage, mode, distance, waste_mode,
          add_fixed_emission, run, bill

widgets == <<start_date, end_date, usage_before, usage_after,
             user_daily_water_usage, mode, distance, waste_mode,
             add_fixed_emission>>
vars == <<start_date, end_date, usage_before, usage_after,
          user_daily_water_usage, mode, distance, waste_mode,
          add_fixed_emission, run, bill>>

Widgets ==
    [start_date |-> start_date, end_date |-> end_date,
     usage_before |-> usage_before, usage_after |-> usage_after,
     user_daily_water_usage |-> user_daily_water_usage, mode |-> mode,
     distance |-> distance, waste_mode |-> waste_mode,
     add_fixed_emission |-> add_fixed_emission]

NoCall == [called |-> FALSE, kwh_usage |-> 0, ret |-> calculate_monthly_bill(0)]

\* the widgets' default values and the first run of the script
WidgetDefaults ==
    /\ start_date = DefaultStart
    /\ end_date = DefaultEnd
    /\ usage_before = 400
    /\ usage_after = 300
    /\ user_daily_water_usage = 100
    /\ mode = "car"
    /\ distance = 10
    /\ waste_mode = "full_separation"
    /\ add_fixed_emission = TRUE

Init ==
    /\ WidgetDefaults
    /\ run = Rerun(Widgets, "none")
    /\ bill = NoCall

\* the widgets drawn before the first st.stop() are on the page in every run,
\* the two usage inputs unless the date check stopped the run, everything
\* below only in a run that was not stopped
UsageOnPage == run.stage # "date_error"
RestOnPage == run.stage = "done"

SetStartDate ==
    /\ \E d \in Dates : d # start_date /\ start_date' = d
    /\ UNCHANGED <<end_date, usage_before, usage_after, user_daily_water_usage,
                   mode, distance, waste_mode, add_fixed_emission, bill>>
    /\ run' = Rerun(Widgets', "none")

SetEndDate ==
    /\ \E d \in Dates : d # end_date /\ end_date' = d
    /\ UNCHANGED <<start_date, usage_before, usage_after, user_daily_water_usage,
                   mode, distance, waste_mode, add_fixed_emission, bill>>
    /\ run' = Rerun(Widgets', "none")

SetUsageBefore ==
    /\ UsageOnPage
    /\ \E u \in UsageBeforeValues : u # usage_before /\ usage_before' = u
    /\ UNCHANGED <<start_date, end_date, usage_after, user_daily_water_usage,
                   mode, distance, waste_mode, add_fixed_emission, bill>>
    /\ run' = Rerun(Widgets', "none")

SetUsageAfter ==
    /\ UsageOnPage
    /\ \E u \in UsageAfterValues : u # usage_after /\ usage_after' = u
    /\ UNCHANGED <<start_date, end_date, usage_before, user_daily_water_usage,
                   mode, distance, waste_mode, add_fixed_emission, bill>>
    /\ run' = Rerun(Widgets', "none")

SetWater ==
    /\ RestOnPage
    /\ \E d \in WaterValues :
          d # user_daily_water_usage /\ user_daily_water_usage' = d
    /\ UNCHANGED <<start_date, end_date, usage_before, usage_after,
                   mode, distance, waste_mode, add_fixed_emission, bill>>
    /\ run' = Rerun(Widgets', "none")

SetMode ==
    /\ RestOnPage
    /\ \E m \in TransportModes : m # mode /\ mode' = m
    /\ UNCHANGED <<start_date, end_date, usage_before, usage_after,
                   user_daily_water_usage, distance, waste_mode,
                   add_fixed_emission, bill>>
    /\ run' = Rerun(Widgets', "none")

SetDistance ==
    /\ RestOnPage
    /\ \E k \in DistanceValues : k # distance /\ distance' = k
    /\ UNCHANGED <<start_date, end_date, usage_before, usage_after,
                   user_daily_water_usage, mode, waste_mode,
                   add_fixed_emission, bill>>
    /\ run' = Rerun(Widgets', "none")

SetWasteMode ==
    /\ RestOnPage
    /\ \E m \in WasteModes : m # waste_mode /\ waste_mode' = m
    /\ UNCHANGED <<start_date, end_date, usage_before, usage_after,
                   user_daily_water_usage, mode, distance,
                   add_fixed_emission, bill>>
    /\ run' = Rerun(Widgets', "none")

ToggleFixed ==
    /\ RestOnPage
    /\ add_fixed_emission' = ~add_fixed_emission
    /\ UNCHANGED <<start_date, end_date, usage_before, usage_after,
                   user_daily_water_usage, mode, distance, waste_mode, bill>>
    /\ run' = Rerun(Widgets', "none")

PressAnalyze ==
    /\ RestOnPage
    /\ UNCHANGED <<widgets, bill>>
    /\ run' = Rerun(Widgets, "analyze")

PressSummary ==
    /\ RestOnPage
    /\ UNCHANGED <<widgets, bill>>
    /\ run' = Rerun(Widgets, "summary")

PressPenguins ==
    /\ RestOnPage
    /\ UNCHANGED <<widgets, bill>>
    /\ run' = Rerun(Widgets, "penguins")

Next ==
    \/ SetStartDate
    \/ SetEndDate
    \/ SetUsageBefore
    \/ SetUsageAfter
    \/ SetWater
    \/ SetMode
    \/ SetDistance
    \/ SetWasteMode
    \/ ToggleFixed
    \/ PressAnalyze
    \/ PressSummary
    \/ PressPenguins

Spec == Init /\ [][Next]_vars

(* ------------- calculate_monthly_bill called on its own ----------------- *)
BillInputs == (0 - MaxNegKwh) .. MaxKwh

CallBill ==
    /\ \E u \in BillInputs :
          bill' = [called |-> TRUE, kwh_usage |-> u, ret |-> calculate_monthly_bill(u)]
    /\ UNCHANGED <<widgets, run>>

NextBill == CallBill

SpecBill == Init /\ [][NextBill]_vars

(* ================================ claims ================================ *)

\* C1: for every usage u >= 0, calculate_monthly_bill(u) returns the
\* progressive breakdown: the energy charge is u*78.3 up to 200 kWh,
\* 200*78.3 + (u-200)*147.3 up to 400 kWh and 200*78.3 + 200*147.3 +
\* (u-400)*215.6 above; fund = charge*0.037; vat = (charge+fund)*0.1; the total
\* is their sum (base fee 0); u = 0 gives four zero amounts.
C1_BillBreakdown ==
    (bill.called /\ bill.kwh_usage >= 0) =>
        LET u == bill.kwh_usage
            r == bill.ret
            charge == IF u <= 200 THEN u * 783
                      ELSE IF u <= 400 THEN 200 * 783 + (u - 200) * 1473
                      ELSE 200 * 783 + 200 * 1473 + (u - 400) * 2156
        IN  /\ r.raised = "none"
            /\ r.energy_charge = charge
            /\ r.electricity_fund = charge * 37
            /\ r.vat = charge * 1000 + charge * 37
            /\ r.total_bill = DecAdd(DecOf(r.energy_charge, 1),
                                     DecAdd(DecOf(r.electricity_fund, 4),
                                            DecOf(r.vat, 5)))
            /\ (u = 0 => /\ r.energy_charge = 0 /\ r.electricity_fund = 0
                         /\ r.vat = 0 /\ r.total_bill = DecZero)

\* a call on the upper threshold: 400 kWh costs 200*78.3 + 200*147.3 = 45120 won
C1_Witness ==
    /\ bill.called
    /\ bill.kwh_usage = 400
    /\ bill.ret.energy_charge = 451200

\* C2: the total is the sum of the CO2 figures of the included estimates, the
\* water term being the water simulator's co2_reduced_kg, plus 1300 when the
\* toggle is on; delta = 4800 - total.
C2_TotalIsSumOfEstimates ==
    run.stage = "done" =>
        /\ (run.total_annual_co2_kg - run.total_co2_electricity
              - run.total_co2_transport - run.tresh_co2
              - run.fixed_emission_value) * 1000
           = (IF run.water.saving THEN run.water.co2_reduced_kg ELSE 0)
        /\ run.delta_kg = 4800 * KgUnit - run.total_annual_co2_kg

\* C3: count_months(start, end) = (end.year-start.year)*12 +
\* (end.month-start.month) + 1 for start <= end, it is at least 1, and it is the
\* same for every choice of the two days of the month.
C3_CountMonths ==
    (run.stage = "done" /\ run.button = "analyze") =>
        /\ ~DateGreater(start_date, end_date)
        /\ run.el.num_months = (end_date.year - start_date.year) * 12
                                  + (end_date.month - start_date.month) + 1
        /\ run.el.num_months >= 1
        /\ \A d1, d2 \in DayValues :
              count_months([start_date EXCEPT !.day = d1],
                           [end_date EXCEPT !.day = d2]) = run.el.num_months

\* an analysis over 2024-01-01 .. 2025-01-14: 13 months, the days differing
C3_Witness ==
    /\ run.stage = "done"
    /\ run.button = "analyze"
    /\ start_date.day # end_date.day
    /\ run.el.num_months = 13

\* C4: the water simulator: saving = 305 - d; for saving > 0 the annual litres
\* are saving*365, the hot-water energy annual*0.40*0.029, the cold-supply
\* energy annual*0.60/1000*0.5, the CO2 (hot+cold)*0.4 and the trees CO2/21;
\* for saving <= 0 no saving is reported and the water term of the total is 0.
C4_WaterSimulator ==
    run.stage = "done" =>
        LET d == user_daily_water_usage
            saving == 305 - d
            annual == saving * 365
            wt == run.water
        IN  /\ wt.daily_saving = saving
            /\ saving > 0 =>
                  /\ wt.saving
                  /\ wt.annual_saving_liters = annual
                  /\ wt.energy_saved_from_hot_water = annual * 4 * 29
                  /\ wt.energy_saved_from_cold_supply = annual * 6 * 5
                  /\ wt.co2_reduced_kg = (annual * 4 * 29 * 10 + annual * 6 * 5) * 4
                  /\ wt.equivalent_trees = [num |-> wt.co2_reduced_kg, den |-> 21]
            /\ saving <= 0 =>
                  /\ ~wt.saving
                  /\ wt.co2_reduced_kg = 0
                  /\ "co2_reduced_kg" \notin run.names
                  /\ run.total_co2_water = 0

\* 100 L a day: 205 L saved, 74825 L a year, 356.167 kg CO2
C4_Witness ==
    /\ run.stage = "done"
    /\ user_daily_water_usage = 100
    /\ run.water.annual_saving_liters = 74825
    /\ run.water.co2_reduced_kg = 356167000

\* C5: the electricity analysis: savedKwh = (before-after)*months, savedPercent
\* = (before-after)/before*100, savedWon = (bill(before) - bill(after))*months,
\* CO2 before/after = usage*409*months/1000 (the 409 g/kWh factor, not 0.4).
C5_ElectricityAnalysis ==
    (run.stage = "done" /\ run.button = "analyze") =>
        LET m == run.el.num_months
            b == usage_before
            a == usage_after
        IN  /\ b > 0 /\ 0 <= a /\ a <= b /\ m >= 1
            /\ run.el.total_saved_kwh = (b - a) * m
            /\ FracEq(run.el.saved_percent, Frac((b - a) * 100, b))
            /\ run.el.total_saved_won
                 = DecMul(DecSub(calculate_monthly_bill(b).total_bill,
                                 calculate_monthly_bill(a).total_bill), m)
            /\ run.el.co2_before_kg = b * 409 * m
            /\ run.el.co2_after_kg = a * 409 * m
            /\ run.el.co2_before_kg # b * 400 * m

\* 400 -> 300 kWh over one month: 100 kWh and 25 % saved
C5_Witness ==
    /\ run.stage = "done"
    /\ run.button = "analyze"
    /\ usage_before = 400 /\ usage_after = 300
    /\ run.el.num_months = 1
    /\ run.el.total_saved_kwh = 100
    /\ FracEq(run.el.saved_percent, Frac(25, 1))
    /\ run.el.co2_after_kg = 122700

\* C6: the bill computation fails with InvalidInput for a negative usage and
\* never returns a bill for one.
C6_NegativeUsageRejected ==
    (bill.called /\ bill.kwh_usage < 0) => bill.ret.raised = "InvalidInput"

\* C7: a run with end date < start date or usageAfter > usageBefore is stopped
\* with an error before the analysis: neither count_months nor
\* calculate_monthly_bill is called and no electricity result exists.
C7_InvalidRunRejected ==
    (DateGreater(start_date, end_date) \/ usage_after > usage_before) =>
        /\ run.stage \in {"date_error", "usage_error"}
        /\ run.calls = << >>
        /\ run.el = NoElectricity
        /\ "co2_after_kg" \notin run.names

\* valid dates, usage rising from 200 to 300: the run stops at the usage check
C7_Witness ==
    /\ ~DateGreater(start_date, end_date)
    /\ usage_after > usage_before
    /\ run.stage = "usage_error"
    /\ run.calls = << >>

\* C8: in every run, whatever the run before it was, the electricity term of
\* the total is co2_after_kg if the analysis ran in that run and 0 otherwise
\* (nothing of an earlier analysis is left), and the transport and waste terms
\* are those of the run's own inputs.
C8_Step ==
    run'.stage = "done" =>
        /\ run'.total_co2_electricity
             = (IF run'.button = "analyze" THEN run'.el.co2_after_kg ELSE 0)
        /\ (run'.button = "analyze") <=> ("co2_after_kg" \in run'.names)
        /\ run'.button = "analyze" => run'.el.co2_after_kg = usage_after' * 409 * run'.el.num_months
        /\ run'.button # "analyze" => run'.el = NoElectricity
        /\ run'.total_co2_transport = emission_factors[mode'] * distance' * 365
        /\ run'.tresh_co2 = emission[waste_mode'] * KgUnit
        /\ run'.total_annual_co2_kg
             = run'.total_co2_electricity + run'.total_co2_water
               + run'.total_co2_transport + run'.tresh_co2
               + run'.fixed_emission_value

C8_FreshEachRun == [][C8_Step]_vars

\* an analysis run whose own co2_after_kg is in the total
C8_Witness ==
    /\ run.stage = "done"
    /\ run.button = "analyze"
    /\ run.el.co2_after_kg > 0
    /\ run.total_co2_electricity = run.el.co2_after_kg

\* C9: the summary displays max(delta,0)/100 as its units-saved figure, next
\* to the delta/5000 of the images, and the binding of max(delta,0)/100 is
\* not replaced.
C9_BothFiguresDisplayed ==
    run.summary.shown =>
        /\ run.summary.metric_penguins = penguins_per_100(run.delta_kg)
        /\ run.summary.metric_penguins >= 0
        /\ run.penguins_saved = penguins_per_5000(run.delta_kg)

====
